---- MODULE Spec2Model ----
(***************************************************************************)
(* The chat handler of src/app.py (Flask routes /get and /logout) as a     *)
(* state machine over the per-user session.  A Python str is a sequence of *)
(* one-character strings, so that strip(), lower(), the `in` substring     *)
(* test, strptime, the e-mail regular expression and urlencode are         *)
(* computed on the characters as the code computes them.                   *)
(***************************************************************************)
EXTENDS Integers, Sequences, FiniteSets, TLC

(***************************************************************************)
(* Characters and the str methods the handler uses.                        *)
(***************************************************************************)
Whitespace == {" ", "\t", "\n", "\r"}

Digits == {"0", "1", "2", "3", "4", "5", "6", "7", "8", "9"}

UpperCase ==
    <<"A", "B", "C", "D", "E", "F", "G", "H", "I", "J", "K", "L", "M",
      "N", "O", "P", "Q", "R", "S", "T", "U", "V", "W", "X", "Y", "Z">>

LowerCase ==
    <<"a", "b", "c", "d", "e", "f", "g", "h", "i", "j", "k", "l", "m",
      "n", "o", "p", "q", "r", "s", "t", "u", "v", "w", "x", "y", "z">>

Letters == {UpperCase[i] : i \in DOMAIN UpperCase} \cup {LowerCase[i] : i \in DOMAIN LowerCase}

\* the lower-case letter of each upper-case one
ToLower ==
    [u \in {UpperCase[i] : i \in DOMAIN UpperCase} |->
        LowerCase[CHOOSE i \in DOMAIN UpperCase : UpperCase[i] = u]]

\* str.lower() on one character
LowerChar(c) == IF c \in DOMAIN ToLower THEN ToLower[c] ELSE c

\* str.lower()
Lower(s) == [i \in DOMAIN s |-> LowerChar(s[i])]

\* str.strip(): leading and trailing whitespace removed
Strip(s) ==
    LET inked == {i \in DOMAIN s : s[i] \notin Whitespace}
    IN  IF inked = {} THEN <<>>
        ELSE LET lo == CHOOSE i \in inked : \A j \in inked : i <= j
                 hi == CHOOSE i \in inked : \A j \in inked : j <= i
             IN  SubSeq(s, lo, hi)

\* `sub in s` on str: sub occurs as a contiguous substring
Contains(s, sub) ==
    \E i \in 0..(Len(s) - Len(sub)) : SubSeq(s, i + 1, i + Len(sub)) = sub

\* `x in list`
InList(x, list) == \E v \in {x} : \E i \in DOMAIN list : list[i] = v

\* sep.join(parts)
RECURSIVE Join(_, _)
Join(parts, sep) ==
    IF parts = <<>> THEN <<>>
    ELSE IF Len(parts) = 1 THEN parts[1]
    ELSE parts[1] \o sep \o Join(Tail(parts), sep)

\* int() of a string of decimal digits
DigitVal(c) == CHOOSE n \in 0..9 : <<"0", "1", "2", "3", "4", "5", "6", "7", "8", "9">>[n + 1] = c

RECURSIVE ToInt(_)
ToInt(s) == IF s = <<>> THEN 0 ELSE 10 * ToInt(SubSeq(s, 1, Len(s) - 1)) + DigitVal(s[Len(s)])
(***************************************************************************)
(* The literals of the handler.                                            *)
(***************************************************************************)
\* ["book", "appointment", "schedule", "reserve", "meeting", "session", "therapy"]
booking_keywords ==
    <<<<"b", "o", "o", "k">>,
      <<"a", "p", "p", "o", "i", "n", "t", "m", "e", "n", "t">>,
      <<"s", "c", "h", "e", "d", "u", "l", "e">>,
      <<"r", "e", "s", "e", "r", "v", "e">>,
      <<"m", "e", "e", "t", "i", "n", "g">>,
      <<"s", "e", "s", "s", "i", "o", "n">>,
      <<"t", "h", "e", "r", "a", "p", "y">>>>

required_fields == <<"name", "email", "service", "date", "time">>

\* the field names as text, for the f-strings that print them
FieldText(f) ==
    CASE f = "name" -> <<"n", "a", "m", "e">>
      [] f = "email" -> <<"e", "m", "a", "i", "l">>
      [] f = "service" -> <<"s", "e", "r", "v", "i", "c", "e">>
      [] f = "date" -> <<"d", "a", "t", "e">>
      [] f = "time" -> <<"t", "i", "m", "e">>

\* the seventeen entries as written, the duplicate and the two capitalised ones included
bad_values ==
    <<<<>>,
      <<"j", "o", "h", "n", " ", "d", "o", "e">>,
      <<"y", "o", "u", "r", " ", "n", "a", "m", "e">>,
      <<"n", "a", "m", "e">>,
      <<"e", "x", "a", "m", "p", "l", "e">>,
      <<"a", "b", "c", "@", "e", "x", "a", "m", "p", "l", "e", ".", "c", "o", "m">>,
      <<"j", "o", "h", "n", "d", "o", "e", "@", "e", "x", "a", "m", "p", "l", "e", ".", "c", "o", "m">>,
      <<"j", "o", "h", "n", "d", "o", "e", "@", "e", "x", "a", "m", "p", "l", "e", ".", "c", "o", "m">>,
      <<"j", "o", "h", "n", "@", "e", "x", "a", "m", "p", "l", "e", ".", "c", "o", "m">>,
      <<"s", "o", "m", "e", "o", "n", "e", "@", "e", "x", "a", "m", "p", "l", "e", ".", "c", "o", "m">>,
      <<"u", "s", "e", "r">>,
      <<"u", "s", "e", "r", "@", "g", "m", "a", "i", "l", ".", "c", "o", "m">>,
      <<"u", "s", "e", "r", "@", "e", "x", "a", "m", "p", "l", "e", ".", "c", "o", "m">>,
      <<"u", "n", "k", "n", "o", "w", "n">>,
      <<"u", "n", "k", "n", "o", "w", "n", "@", "g", "m", "a", "i", "l", ".", "c", "o", "m">>,
      <<"Y", "o", "u", " ", "d", "i", "d", "n", "'", "t", " ", "m", "e", "n", "t", "i", "o", "n", " ", "y", "o", "u", "r", " ", "n", "a", "m", "e">>,
      <<"Y", "o", "u", " ", "d", "i", "d", "n", "'", "t", " ", "m", "e", "n", "t", "i", "o", "n", " ", "y", "o", "u", "r", " ", "e", "m", "a", "i", "l">>>>

\* 'Sure! To proceed, please provide your '
FollowUpHead ==
    <<"S", "u", "r", "e", "!", " ", "T", "o", " ", "p", "r", "o", "c", "e", "e", "d", ",", " ", "p", "l", "e", "a", "s", "e", " ", "p", "r", "o", "v", "i", "d", "e", " ", "y", "o", "u", "r", " ">>

\* 'Missing or invalid: '
SchemaHead ==
    <<"M", "i", "s", "s", "i", "n", "g", " ", "o", "r", " ", "i", "n", "v", "a", "l", "i", "d", ":", " ">>

\* '. Please provide them.'
SchemaTail ==
    <<".", " ", "P", "l", "e", "a", "s", "e", " ", "p", "r", "o", "v", "i", "d", "e", " ", "t", "h", "e", "m", ".">>

\* "Sorry, I couldn't understand all the booking details. Could you please provide your name, email, preferred date, and time?"
GenericRecovery ==
    <<"S", "o", "r", "r", "y", ",", " ", "I", " ", "c", "o", "u", "l", "d", "n", "'", "t", " ", "u", "n", "d", "e", "r", "s", "t", "a", "n", "d", " ", "a", "l", "l", " ", "t", "h", "e", " ", "b", "o", "o", "k", "i", "n", "g", " ", "d", "e", "t", "a", "i", "l", "s", ".", " ", "C", "o", "u", "l", "d", " ", "y", "o", "u", " ", "p", "l", "e", "a", "s", "e", " ", "p", "r", "o", "v", "i", "d", "e", " ", "y", "o", "u", "r", " ", "n", "a", "m", "e", ",", " ", "e", "m", "a", "i", "l", ",", " ", "p", "r", "e", "f", "e", "r", "r", "e", "d", " ", "d", "a", "t", "e", ",", " ", "a", "n", "d", " ", "t", "i", "m", "e", "?">>

\* "You can complete your booking here: <a href='"
LinkHead ==
    <<"Y", "o", "u", " ", "c", "a", "n", " ", "c", "o", "m", "p", "l", "e", "t", "e", " ", "y", "o", "u", "r", " ", "b", "o", "o", "k", "i", "n", "g", " ", "h", "e", "r", "e", ":", " ", "<", "a", " ", "h", "r", "e", "f", "=", "'">>

\* "' target='_blank'>"
LinkMid ==
    <<"'", " ", "t", "a", "r", "g", "e", "t", "=", "'", "_", "b", "l", "a", "n", "k", "'", ">">>

\* '</a>'
LinkTail ==
    <<"<", "/", "a", ">">>

(***************************************************************************)
(* Field validators: datetime.strptime with '%Y-%m-%d' and '%H:%M', and    *)
(* the e-mail pattern.  strptime matches the whole string against the      *)
(* directive patterns of the standard library, then builds the datetime,   *)
(* which rejects year 0 and a day the month does not have.                 *)
(***************************************************************************)
NonZeroDigits == Digits \ {"0"}

\* %m : 1[0-2]|0[1-9]|[1-9]
MonthToken(m) ==
    \/ Len(m) = 2 /\ m[1] = "1" /\ m[2] \in {"0", "1", "2"}
    \/ Len(m) = 2 /\ m[1] = "0" /\ m[2] \in NonZeroDigits
    \/ Len(m) = 1 /\ m[1] \in NonZeroDigits

\* %d : 3[0-1]|[1-2]\d|0[1-9]|[1-9]| [1-9]
DayToken(d) ==
    \/ Len(d) = 2 /\ d[1] = "3" /\ d[2] \in {"0", "1"}
    \/ Len(d) = 2 /\ d[1] \in {"1", "2"} /\ d[2] \in Digits
    \/ Len(d) = 2 /\ d[1] = "0" /\ d[2] \in NonZeroDigits
    \/ Len(d) = 1 /\ d[1] \in NonZeroDigits
    \/ Len(d) = 2 /\ d[1] = " " /\ d[2] \in NonZeroDigits

\* %H : 2[0-3]|[0-1]\d|\d
HourToken(h) ==
    \/ Len(h) = 2 /\ h[1] = "2" /\ h[2] \in {"0", "1", "2", "3"}
    \/ Len(h) = 2 /\ h[1] \in {"0", "1"} /\ h[2] \in Digits
    \/ Len(h) = 1 /\ h[1] \in Digits

\* %M : [0-5]\d|\d
MinuteToken(m) ==
    \/ Len(m) = 2 /\ m[1] \in {"0", "1", "2", "3", "4", "5"} /\ m[2] \in Digits
    \/ Len(m) = 1 /\ m[1] \in Digits

IsLeap(y) == y % 4 = 0 /\ (y % 100 # 0 \/ y % 400 = 0)

DaysInMonth(y, m) ==
    IF m = 2 THEN (IF IsLeap(y) THEN 29 ELSE 28)
    ELSE IF m \in {4, 6, 9, 11} THEN 30 ELSE 31

validate_date(date_str) ==
    \E lm \in {1, 2}, ld \in {1, 2} :
        /\ Len(date_str) = 6 + lm + ld
        /\ \A i \in 1..4 : date_str[i] \in Digits
        /\ date_str[5] = "-"
        /\ date_str[6 + lm] = "-"
        /\ MonthToken(SubSeq(date_str, 6, 5 + lm))
        /\ DayToken(SubSeq(date_str, 7 + lm, 6 + lm + ld))
        /\ LET y == ToInt(SubSeq(date_str, 1, 4))
               m == ToInt(SubSeq(date_str, 6, 5 + lm))
               d == ToInt(Strip(SubSeq(date_str, 7 + lm, 6 + lm + ld)))
           IN  y >= 1 /\ d <= DaysInMonth(y, m)

validate_time(time_str) ==
    \E lh \in {1, 2}, lm \in {1, 2} :
        /\ Len(time_str) = lh + 1 + lm
        /\ HourToken(SubSeq(time_str, 1, lh))
        /\ time_str[lh + 1] = ":"
        /\ MinuteToken(SubSeq(time_str, lh + 2, lh + 1 + lm))

\* [a-zA-Z0-9]
AlphaNumeric == Letters \cup Digits

\* the whole of s matches [^@\s]+@[^@\s]+\.[a-zA-Z0-9]+
EmailShape(s) ==
    \E i \in DOMAIN s, j \in DOMAIN s :
        /\ s[i] = "@" /\ s[j] = "."
        /\ 1 < i /\ i + 1 < j /\ j < Len(s)
        /\ \A k \in 1..(i - 1) : s[k] \notin Whitespace \cup {"@"}
        /\ \A k \in (i + 1)..(j - 1) : s[k] \notin Whitespace \cup {"@"}
        /\ \A k \in (j + 1)..Len(s) : s[k] \in AlphaNumeric

\* re.match of ^...$ : $ also matches just before one trailing newline
is_valid_email(email) ==
    \/ EmailShape(email)
    \/ /\ email # <<>>
       /\ email[Len(email)] = "\n"
       /\ EmailShape(SubSeq(email, 1, Len(email) - 1))

(***************************************************************************)
(* urllib.parse.urlencode: every key and value through quote_plus.         *)
(***************************************************************************)
PercentCode(c) ==
    CASE c = "\t" -> <<"%", "0", "9">>
      [] c = "\n" -> <<"%", "0", "A">>
      [] c = "\r" -> <<"%", "0", "D">>
      [] c = "!" -> <<"%", "2", "1">>
      [] c = "%" -> <<"%", "2", "5">>
      [] c = "&" -> <<"%", "2", "6">>
      [] c = "'" -> <<"%", "2", "7">>
      [] c = "+" -> <<"%", "2", "B">>
      [] c = "," -> <<"%", "2", "C">>
      [] c = "/" -> <<"%", "2", "F">>
      [] c = ":" -> <<"%", "3", "A">>
      [] c = "<" -> <<"%", "3", "C">>
      [] c = "=" -> <<"%", "3", "D">>
      [] c = ">" -> <<"%", "3", "E">>
      [] c = "?" -> <<"%", "3", "F">>
      [] c = "@" -> <<"%", "4", "0">>

RECURSIVE quote_plus(_)
quote_plus(s) ==
    IF s = <<>> THEN <<>>
    ELSE LET c == Head(s)
             enc == IF c \in AlphaNumeric \cup {"_", ".", "-", "~"} THEN <<c>>
                    ELSE IF c = " " THEN <<"+">>
                    ELSE PercentCode(c)
         IN  enc \o quote_plus(Tail(s))

\* pairs: a sequence of <<key, value>>, in dict order
urlencode(pairs) ==
    Join([i \in DOMAIN pairs |->
            quote_plus(pairs[i][1]) \o <<"=">> \o quote_plus(pairs[i][2])],
         <<"&">>)

(***************************************************************************)
(* The session: a dict, here a function whose domain is the keys present.  *)
(***************************************************************************)
\* session.get(key, default)
Get(s, key, default) == IF key \in DOMAIN s THEN s[key] ELSE default

\* session[key] = value
Put(s, key, value) == [k \in DOMAIN s \cup {key} |-> IF k = key THEN value ELSE s[k]]

\* the session with no key: a new session, and a cleared one
EmptySession == [k \in {} |-> <<>>]

SlotKeys == {required_fields[i] : i \in DOMAIN required_fields}

get_memory(s) == Get(s, "conversation_history", <<>>)

\* saving only the last two entries
save_memory_window(s, history) ==
    Put(s, "conversation_history",
        IF Len(history) <= 2 THEN history ELSE SubSeq(history, Len(history) - 1, Len(history)))

save_memory(s, history) == Put(s, "conversation_history", history)

\* {"role": role, "content": content}
Entry(role, content) == [role |-> role, content |-> content]

(***************************************************************************)
(* chat(), lines 116-221, statement by statement.                          *)
(***************************************************************************)
\* the keyword test without msg.lower()
has_booking_keyword_cased(msg) ==
    \E i \in DOMAIN booking_keywords : Contains(msg, booking_keywords[i])

\* any(word in msg.lower() for word in booking_keywords)
has_booking_keyword(msg) ==
    \E i \in DOMAIN booking_keywords : Contains(Lower(msg), booking_keywords[i])

\* a router that does not read the flag
flag_not_read(s) == FALSE

\* session.get("booking_in_progress") as a condition: None and False are falsy
in_progress(s) == Get(s, "booking_in_progress", FALSE) = TRUE

\* line 124
is_booking_flow(s, msg) == has_booking_keyword(msg) \/ in_progress(s)

existing_info(s) == [f \in SlotKeys |-> Get(s, f, <<>>)]

\* f"My {k} is {v}."
KnownStatement(k, v) ==
    <<"M", "y", " ">> \o FieldText(k) \o <<" ", "i", "s", " ">> \o v \o <<".">>

\* " ".join([... for k, v in existing_info.items() if v]) + " " + msg
combined_input(s, msg) ==
    LET known == SelectSeq(required_fields, LAMBDA k : existing_info(s)[k] # <<>>)
        parts == [i \in DOMAIN known |-> KnownStatement(known[i], existing_info(s)[known[i]])]
    IN  Join(parts, <<" ">>) \o <<" ">> \o msg

\* value in bad_values, on the normalised value
is_bad_value(value) == InList(value, bad_values)

\* lines 151-161 without the e-mail check of lines 162-163
missing_fields_no_email_check(booking_info) ==
    LET placeholders ==
            SelectSeq(required_fields,
                      LAMBDA field : is_bad_value(Lower(Strip(booking_info[field]))))
        with_date ==
            IF ~InList("date", placeholders) /\ ~validate_date(booking_info["date"])
            THEN Append(placeholders, "date") ELSE placeholders
    IN  IF ~InList("time", with_date) /\ ~validate_time(booking_info["time"])
        THEN Append(with_date, "time") ELSE with_date

\* lines 151-163 with the `not` of line 162 dropped
missing_fields_inverted_email(booking_info) ==
    LET m == missing_fields_no_email_check(booking_info)
    IN  IF ~InList("email", m) /\ is_valid_email(booking_info["email"])
        THEN Append(m, "email") ELSE m

\* lines 151-163 with the validators run on every field, flagged or not
missing_fields_unguarded(booking_info) ==
    SelectSeq(required_fields,
              LAMBDA field : is_bad_value(Lower(Strip(booking_info[field]))))
        \o (IF ~validate_date(booking_info["date"]) THEN <<"date">> ELSE <<>>)
        \o (IF ~validate_time(booking_info["time"]) THEN <<"time">> ELSE <<>>)
        \o (IF ~is_valid_email(booking_info["email"]) THEN <<"email">> ELSE <<>>)

\* lines 151-163: the placeholder loop, then date, time and email validation
missing_fields(booking_info) ==
    LET placeholders ==
            SelectSeq(required_fields,
                      LAMBDA field : is_bad_value(Lower(Strip(booking_info[field]))))
        with_date ==
            IF ~InList("date", placeholders) /\ ~validate_date(booking_info["date"])
            THEN Append(placeholders, "date") ELSE placeholders
        with_time ==
            IF ~InList("time", with_date) /\ ~validate_time(booking_info["time"])
            THEN Append(with_date, "time") ELSE with_date
    IN  IF ~InList("email", with_time) /\ ~is_valid_email(booking_info["email"])
        THEN Append(with_time, "email") ELSE with_time

\* storing only the fields that are not missing
is_stored_valid_only(booking_info, field) == ~InList(field, missing_fields(booking_info))

\* lines 166-169: whether the loop stores the field
is_stored(booking_info, field) == ~is_bad_value(Lower(Strip(booking_info[field])))

\* lines 166-169 without the test of line 168: every field is stored
store_every_field(s, booking_info) ==
    [k \in DOMAIN s \cup SlotKeys |->
        IF k \in SlotKeys THEN Strip(booking_info[k]) ELSE s[k]]

\* lines 166-169: session[field] = value for each field the loop stores
store_fields(s, booking_info) ==
    LET stored == {f \in SlotKeys : is_stored(booking_info, f)}
    IN  [k \in DOMAIN s \cup stored |->
            IF k \in stored THEN Strip(booking_info[k]) ELSE s[k]]

\* line 178 followed by a reset of the five slots
mark_complete_and_reset(s) ==
    [k \in DOMAIN s \cup {"booking_in_progress"} |->
        IF k = "booking_in_progress" THEN FALSE
        ELSE IF k \in SlotKeys THEN <<>> ELSE s[k]]

\* line 178 left out: the flag stays as line 127 set it
flag_left_set(s) == s

\* line 178
mark_complete(s) == Put(s, "booking_in_progress", FALSE)

\* urllib.parse.urljoin(request.host_url, "book"); host_url ends with "/"

base_url(host_url) == host_url \o <<"b", "o", "o", "k">>

\* lines 181-187
query_params(s) ==
    <<<<<<"n", "a", "m", "e">>, s["name"]>>,
      <<<<"e", "m", "a", "i", "l">>, s["email"]>>,
      <<<<"s", "e", "r", "v", "i", "c", "e">>, s["service"]>>,
      <<<<"d", "a", "t", "e">>, s["date"]>>,
      <<<<"t", "i", "m", "e">>, s["time"]>>>>

\* f"{base_url}?{urllib.parse.urlencode(query_params)}"
booking_url(host_url, s) == base_url(host_url) \o <<"?">> \o urlencode(query_params(s))

\* the list of missing fields returned as it is, without the prompt around it
follow_up_reply_bare_list(missing) ==
    Join([i \in DOMAIN missing |-> FieldText(missing[i])], <<",", " ">>)

\* line 172
follow_up_reply(missing) ==
    FollowUpHead \o Join([i \in DOMAIN missing |-> FieldText(missing[i])], <<",", " ">>) \o <<".">>

\* line 189
link_reply(url) == LinkHead \o url \o LinkMid \o url \o LinkTail

\* lines 196-197 naming every required field
schema_reply_all_fields(error_fields) ==
    SchemaHead \o Join([i \in DOMAIN required_fields |-> FieldText(required_fields[i])], <<",", " ">>)
               \o SchemaTail

\* lines 196-197: error_fields = [e['loc'][0] for e in ve.errors()]
schema_reply(error_fields) ==
    SchemaHead \o Join([i \in DOMAIN error_fields |-> FieldText(error_fields[i])], <<",", " ">>)
               \o SchemaTail

\* the outcomes of booking_chain.invoke: a BookingInfo, a ValidationError
\* carrying the offending fields, or any other exception
NoInfo == [f \in SlotKeys |-> <<>>]

Extracted(info) == [kind |-> "ok", info |-> info, errors |-> <<>>]

SchemaError(fields) == [kind |-> "schema", info |-> NoInfo, errors |-> fields]

OtherError == [kind |-> "error", info |-> NoInfo, errors |-> <<>>]

\* lines 126-207: the booking branch on session s (the user entry not yet
\* stored), as the session it leaves and what the turn did
booking_branch(s, msg, host_url, ext) ==
    LET history == Append(get_memory(s), Entry("user", msg))
        s1 == Put(s, "booking_in_progress", TRUE)
        combined == combined_input(s1, msg)
        missing == missing_fields(ext.info)
        s2 == store_fields(s1, ext.info)
        s3 == mark_complete(s2)
        url == booking_url(host_url, s3)
        done(sess, outcome, reply, m, u) ==
            [session |-> save_memory(sess, Append(history, Entry("assistant", reply))),
             outcome |-> outcome, reply |-> reply, combined_input |-> combined,
             flag_at_extract |-> s1["booking_in_progress"],
             missing |-> m, booking_url |-> u]
    IN  IF ext.kind = "ok"
        THEN IF missing # <<>>
             THEN done(s2, "followup", follow_up_reply(missing), missing, <<>>)
             ELSE done(s3, "complete", link_reply(url), missing, url)
        ELSE IF ext.kind = "schema"
        THEN done(s1, "schema", schema_reply(ext.errors), <<>>, <<>>)
        ELSE done(s1, "error", GenericRecovery, <<>>, <<>>)

\* Q&A context window: conversation_history[-6:]
ContextWindow == 6

\* conversation_history[:]: the whole history as the context
whole_history(seq, n) == seq

LastN(seq, n) == IF Len(seq) <= n THEN seq ELSE SubSeq(seq, Len(seq) - n + 1, Len(seq))

\* f"{m['role']}: {m['content']}"

RoleText(role) == IF role = "user" THEN <<"u", "s", "e", "r">> ELSE <<"a", "s", "s", "i", "s", "t", "a", "n", "t">>

render_turn(m) == RoleText(m.role) \o <<":", " ">> \o m.content

\* lines 210-213, on the history that already ends with the user entry
full_input(history, msg) ==
    LET window == LastN(history, ContextWindow)
        context_messages == Join([i \in DOMAIN window |-> render_turn(window[i])], <<"\n">>)
    IN  context_messages \o <<"\n">> \o RoleText("user") \o <<":", " ">> \o msg

\* lines 209-221 with the booking flag reset on the way
qa_branch_resets_flag(s, msg, answer) ==
    LET history == Append(get_memory(s), Entry("user", msg))
    IN  [session |-> Put(save_memory(s, Append(history, Entry("assistant", answer))),
                         "booking_in_progress", FALSE),
         reply |-> answer,
         full_input |-> full_input(history, msg)]

\* lines 209-221 when rag_chain.invoke returns answer
qa_branch(s, msg, answer) ==
    LET history == Append(get_memory(s), Entry("user", msg))
    IN  [session |-> save_memory(s, Append(history, Entry("assistant", answer))),
         reply |-> answer,
         full_input |-> full_input(history, msg)]

(***************************************************************************)
(* Bounds and the inputs the requests are drawn from.                      *)
(***************************************************************************)
\* requests (chat turns and logouts) in one behaviour
MaxRequests == 2

\* 'hi'
MsgHi == <<"h", "i">>

\* 'BooK it'
MsgBook == <<"B", "o", "o", "K", " ", "i", "t">>

Msgs == {MsgHi, MsgBook}

\* what the extractor may answer for each field: a good value, and a
\* placeholder in another case with blanks around it, a value that fails
\* its validator, a good value to be trimmed, a blank
Names ==
    {<<"A", "l">>,
     <<" ", "N", "A", "M", "E", " ">>}

Emails ==
    {<<"a", "@", "b", ".", "c", "o">>,
     <<"a", "@", "b">>}

Services ==
    {<<"s", "p", "a">>,
     <<" ", "G", "y", "m", " ">>}

Dates ==
    {<<"2", "0", "2", "5", "-", "0", "3", "-", "1", "0">>,
     <<"2", "0", "2", "5", "-", "0", "2", "-", "3", "0">>}

Times ==
    {<<"1", "4", ":", "3", "0">>,
     <<" ">>}

Infos ==
    {[f \in SlotKeys |->
        CASE f = "name" -> n [] f = "email" -> e [] f = "service" -> sv
          [] f = "date" -> d [] f = "time" -> tm] :
     n \in Names, e \in Emails, sv \in Services, d \in Dates, tm \in Times}

ExtractorOutcomes ==
    {Extracted(info) : info \in Infos}
        \cup {SchemaError(<<"email">>), SchemaError(<<"name", "time">>), OtherError}

\* 'http://h:8080/'
HostLocal == <<"h", "t", "t", "p", ":", "/", "/", "h", ":", "8", "0", "8", "0", "/">>

\* 'https://h/'
HostPublic == <<"h", "t", "t", "p", "s", ":", "/", "/", "h", "/">>

HostUrls == {HostLocal, HostPublic}

\* 'We offer spa.'
AnswerText == <<"W", "e", " ", "o", "f", "f", "e", "r", " ", "s", "p", "a", ".">>

\* rag_chain.invoke returns an answer or raises
RagOutcomes == {[kind |-> "answer", answer |-> AnswerText], [kind |-> "raise", answer |-> <<>>]}

(***************************************************************************)
(* State.  session is the Flask session of one user; turn records what the *)
(* last request did (its inputs, the calls it made, its reply, the keys a   *)
(* logout cleared); nreq counts the requests served.                       *)
(***************************************************************************)
VARIABLES session, turn, nreq

vars == <<session, turn, nreq>>

NoTurn ==
    [op |-> "none", msg |-> <<>>, in_progress_before |-> FALSE,
     branch |-> "none", ext_kind |-> "none", outcome |-> "none",
     extractor_calls |-> 0, rag_calls |-> 0, flag_at_extract |-> FALSE,
     existing_info |-> NoInfo, combined_input |-> <<>>, info |-> NoInfo, errors |-> <<>>, missing |-> <<>>,
     host_url |-> <<>>, booking_url |-> <<>>, full_input |-> <<>>,
     replied |-> FALSE, reply |-> <<>>, cleared |-> {}]

Init ==
    /\ session = EmptySession
    /\ turn = NoTurn
    /\ nreq = 0

\* request.host_url is read at line 180 only, when no field is missing
HostsRead(ext, hosts) ==
    IF ext.kind = "ok" /\ missing_fields(ext.info) = <<>> THEN hosts ELSE {<<>>}

\* POST /get routed to the booking branch
ChatBooking(msgs, exts, hosts, limit) ==
    /\ nreq < limit
    /\ \E msg \in {m \in msgs : is_booking_flow(session, m)}, ext \in exts :
        /\ \E host_url \in HostsRead(ext, hosts) :
            \E r \in {booking_branch(session, msg, host_url, ext)} :
                /\ session' = r.session
                /\ turn' = [NoTurn EXCEPT
                              !.op = "chat", !.msg = msg, !.branch = "booking",
                              !.in_progress_before = in_progress(session),
                              !.ext_kind = ext.kind,
                              !.outcome = r.outcome, !.extractor_calls = 1,
                              !.flag_at_extract = r.flag_at_extract,
                              !.existing_info = existing_info(session),
                              !.combined_input = r.combined_input,
                              !.info = ext.info, !.errors = ext.errors,
                              !.missing = r.missing, !.host_url = host_url,
                              !.booking_url = r.booking_url,
                              !.replied = TRUE, !.reply = r.reply]
    /\ nreq' = nreq + 1

\* POST /get routed to the Q&A fallback; when rag_chain.invoke raises, the
\* handler is left before save_memory and the session keeps its stored value
ChatQA(msgs, rags, limit) ==
    /\ nreq < limit
    /\ \E msg \in {m \in msgs : ~is_booking_flow(session, m)}, rag \in rags :
        /\ \E r \in {qa_branch(session, msg, rag.answer)} :
               IF rag.kind = "answer"
               THEN /\ session' = r.session
                    /\ turn' = [NoTurn EXCEPT
                                  !.op = "chat", !.msg = msg, !.branch = "qa",
                                  !.in_progress_before = in_progress(session),
                                  !.outcome = "answer", !.rag_calls = 1,
                                  !.full_input = r.full_input,
                                  !.replied = TRUE, !.reply = r.reply]
               ELSE /\ session' = session
                    /\ turn' = [NoTurn EXCEPT
                                  !.op = "chat", !.msg = msg, !.branch = "qa",
                                  !.in_progress_before = in_progress(session),
                                  !.outcome = "raised", !.rag_calls = 1,
                                  !.full_input = r.full_input]
    /\ nreq' = nreq + 1

\* a clear that removes the five slots only
clear_slots_only(s) == [k \in DOMAIN s \ SlotKeys |-> s[k]]

\* session.clear()
clear(s) == EmptySession

\* GET /logout
Logout(limit) ==
    /\ nreq < limit
    /\ session' = clear(session)
    /\ turn' = [NoTurn EXCEPT !.op = "logout", !.cleared = DOMAIN session]
    /\ nreq' = nreq + 1

Next ==
    \/ ChatBooking(Msgs, ExtractorOutcomes, HostUrls, MaxRequests)
    \/ ChatQA(Msgs, RagOutcomes, MaxRequests)
    \/ Logout(MaxRequests)

Spec == Init /\ [][Next]_vars

(***************************************************************************)
(* A second set of inputs, for the mode router: many messages (each        *)
(* keyword, in several cases, inside a longer word, and near misses), and  *)
(* three extractor outcomes, enough to leave the flag set, cleared, absent.*)
(***************************************************************************)
\* 'hi'
RouteHi == <<"h", "i">>

\* 'boo k'
RouteGap == <<"b", "o", "o", " ", "k">>

\* 'reserv'
RoutePrefix == <<"r", "e", "s", "e", "r", "v">>

\* 'BooK it'
RouteBook == <<"B", "o", "o", "K", " ", "i", "t">>

\* 'notebooks'
RouteInside == <<"n", "o", "t", "e", "b", "o", "o", "k", "s">>

\* 'THERAPY'
RouteTherapy == <<"T", "H", "E", "R", "A", "P", "Y">>

\* 'an Appointment'
RouteAppointment == <<"a", "n", " ", "A", "p", "p", "o", "i", "n", "t", "m", "e", "n", "t">>

\* 'schedule'
RouteSchedule == <<"s", "c", "h", "e", "d", "u", "l", "e">>

\* 'Reserve'
RouteReserve == <<"R", "e", "s", "e", "r", "v", "e">>

\* 'meeting?'
RouteMeeting == <<"m", "e", "e", "t", "i", "n", "g", "?">>

\* 'Session'
RouteSession == <<"S", "e", "s", "s", "i", "o", "n">>

RouteMsgs ==
    {RouteHi, RouteGap, RoutePrefix, RouteBook,
     RouteInside, RouteTherapy, RouteAppointment, RouteSchedule,
     RouteReserve, RouteMeeting, RouteSession}

RouteInfo ==
    [f \in SlotKeys |->
        CASE f = "name" -> <<"A", "l">> [] f = "email" -> <<"a", "@", "b", ".", "c", "o">> [] f = "service" -> <<"s", "p", "a">>
          [] f = "date" -> <<"2", "0", "2", "5", "-", "0", "3", "-", "1", "0">> [] f = "time" -> <<"1", "4", ":", "3", "0">>]

RouteOutcomes == {Extracted(RouteInfo), OtherError}

NextRouting ==
    \/ ChatBooking(RouteMsgs, RouteOutcomes, {HostLocal}, MaxRequests)
    \/ ChatQA(RouteMsgs, RagOutcomes, MaxRequests)
    \/ Logout(MaxRequests)

SpecRouting == Init /\ [][NextRouting]_vars

(***************************************************************************)
(* A third set of inputs, for longer dialogues: three messages and three   *)
(* extractor outcomes (a failure, an extraction with fields missing, a     *)
(* complete one), over enough requests for the history to outgrow the      *)
(* context window.                                                         *)
(***************************************************************************)
\* requests in one behaviour of a long dialogue
MaxDialogue == 4

\* 'ok?'
MsgOk == <<"o", "k", "?">>

DialogueMsgs == {MsgHi, MsgOk, MsgBook}

\* name and service good, e-mail failing validation, date and time blank
PartialInfo ==
    [f \in SlotKeys |->
        CASE f = "name" -> <<"A", "l">> [] f = "email" -> <<"a", "@", "b">> [] f = "service" -> <<"s", "p", "a">>
          [] f = "date" -> <<" ">> [] f = "time" -> <<" ">>]

DialogueOutcomes == {Extracted(RouteInfo), Extracted(PartialInfo), OtherError}

NextDialogue ==
    \/ ChatBooking(DialogueMsgs, DialogueOutcomes, {HostLocal}, MaxDialogue)
    \/ ChatQA(DialogueMsgs, RagOutcomes, MaxDialogue)
    \/ Logout(MaxDialogue)

SpecDialogue == Init /\ [][NextDialogue]_vars

(***************************************************************************)
(* Properties.  A property of one turn is an action formula: the unprimed  *)
(* variables are the session before the request, the primed ones the       *)
(* session it leaves and the record of what the request did.               *)
(***************************************************************************)
\* the seven keywords of the mode router, as a set
KeywordSet ==
    {<<"b", "o", "o", "k">>,
     <<"a", "p", "p", "o", "i", "n", "t", "m", "e", "n", "t">>,
     <<"s", "c", "h", "e", "d", "u", "l", "e">>,
     <<"r", "e", "s", "e", "r", "v", "e">>,
     <<"m", "e", "e", "t", "i", "n", "g">>,
     <<"s", "e", "s", "s", "i", "o", "n">>,
     <<"t", "h", "e", "r", "a", "p", "y">>}

\* the message holds a keyword as a substring, whatever the case of its letters
MentionsKeyword(msg) ==
    \E kw \in KeywordSet :
        \E i \in 0..(Len(msg) - Len(kw)) :
            \A j \in 1..Len(kw) : LowerChar(msg[i + j]) = kw[j]

FlagSet(s) == "booking_in_progress" \in DOMAIN s /\ s["booking_in_progress"] = TRUE

\* C1: every chat turn is handled by the booking branch, with
\* booking_in_progress set to True before the extractor is invoked, if and
\* only if the message holds one of the seven keywords as a case-insensitive
\* substring or the flag was already set; every other turn is handled by the
\* Q&A fallback.
C1_ModeRouter ==
    [][turn'.op = "chat" =>
        /\ turn'.branch = "booking" <=> (MentionsKeyword(turn'.msg) \/ FlagSet(session))
        /\ turn'.branch = "booking" =>
              /\ turn'.extractor_calls = 1 /\ turn'.rag_calls = 0
              /\ turn'.flag_at_extract = TRUE
        /\ turn'.branch # "booking" =>
              /\ turn'.branch = "qa"
              /\ turn'.extractor_calls = 0 /\ turn'.rag_calls = 1]_vars

\* a turn without keyword handled by the booking branch because the flag was set
C1_Witness ==
    /\ turn.op = "chat" /\ turn.branch = "booking"
    /\ ~MentionsKeyword(turn.msg)
    /\ nreq = 2

\* the key is present after the request exactly when it was before, with the same value
SameKey(k) ==
    /\ (k \in DOMAIN session') <=> (k \in DOMAIN session)
    /\ k \in DOMAIN session => session'[k] = session[k]

\* trimmed and lower-cased, the value is in the Bad-Value Set
IsPlaceholder(v) == InList(Lower(Strip(v)), bad_values)

\* the value passes the validator of its field, where the field has one
PassesValidator(f, v) ==
    /\ f = "date" => validate_date(v)
    /\ f = "time" => validate_time(v)
    /\ f = "email" => is_valid_email(v)

\* the extractor returned a BookingInfo in the last turn
Extraction(tr) == tr.op = "chat" /\ tr.branch = "booking" /\ tr.ext_kind = "ok"

\* the last turn emitted the booking link
Completion(tr) == Extraction(tr) /\ tr.outcome = "complete"

\* the five names in the order name, email, service, date, time
InFixedOrder(fields) == SelectSeq(required_fields, LAMBDA f : f \in fields)

FieldList(fields) == Join([i \in DOMAIN fields |-> FieldText(fields[i])], <<",", " ">>)

\* C2: whenever a chat turn clears booking_in_progress and emits the booking
\* link, each of the five session slots the URL is built from is not a
\* Bad-Value (trimmed and lower-cased), the date slot passes validate_date,
\* the time slot validate_time and the email slot is_valid_email.
C2_CompletionOnlyWithFiveGoodFields ==
    Completion(turn) =>
        /\ session["booking_in_progress"] = FALSE
        /\ turn.reply = link_reply(turn.booking_url)
        /\ turn.booking_url = booking_url(turn.host_url, session)
        /\ \A f \in SlotKeys :
              /\ f \in DOMAIN session
              /\ ~IsPlaceholder(session[f])
              /\ PassesValidator(f, session[f])

\* a turn completed the booking
C2_Witness == Completion(turn) /\ turn.replied

\* C3: when two or more fields are missing, the follow-up prompt lists them in
\* the order name, email, service, date, time, whatever the reason each is
\* missing.
C3_PromptInFixedOrder ==
    (Extraction(turn) /\ turn.outcome = "followup" /\ Len(turn.missing) >= 2) =>
        turn.reply =
            FollowUpHead
                \o FieldList(InFixedOrder({turn.missing[i] : i \in DOMAIN turn.missing}))
                \o <<".">>

\* C4: in every reachable state each stored slot is absent, empty, or a
\* validated string: not a placeholder and, for date, time and email, passing
\* the validator.
C4_StoredSlotsValidated ==
    \A f \in SlotKeys \cap DOMAIN session :
        \/ session[f] = <<>>
        \/ ~IsPlaceholder(session[f]) /\ PassesValidator(f, session[f])

C6_ExtractorFailure ==
    [][(turn'.op = "chat" /\ turn'.ext_kind \in {"schema", "error"}) =>
        /\ \A f \in SlotKeys : SameKey(f)
        /\ FlagSet(session')
        /\ turn'.replied
        /\ turn'.reply =
              IF turn'.ext_kind = "schema"
              THEN SchemaHead \o FieldList(turn'.errors) \o SchemaTail
              ELSE GenericRecovery]_vars

\* a schema error on a turn that entered the booking branch by keyword, from
\* a session that held slots and had the flag cleared
C6_Witness ==
    /\ turn.op = "chat" /\ turn.ext_kind = "schema"
    /\ ~turn.in_progress_before
    /\ turn.existing_info["email"] # <<>>
    /\ session["email"] = turn.existing_info["email"]
    /\ FlagSet(session)

\* C7: a turn whose message holds no keyword, on a session whose flag is not
\* set, goes to the Q&A fallback and leaves the five slots and the flag as
\* they were; the extractor is not invoked; only the history may change.
C7_QALeavesSlotState ==
    [][(turn'.op = "chat" /\ ~MentionsKeyword(turn'.msg) /\ ~FlagSet(session)) =>
        /\ turn'.branch = "qa"
        /\ turn'.extractor_calls = 0
        /\ \A k \in SlotKeys \cup {"booking_in_progress"} : SameKey(k)
        /\ DOMAIN session' \subseteq DOMAIN session \cup {"conversation_history"}]_vars

\* a Q&A turn answered on a session that holds slots and a cleared flag
C7_Witness ==
    /\ turn.op = "chat" /\ turn.branch = "qa" /\ turn.outcome = "answer"
    /\ SlotKeys \subseteq DOMAIN session
    /\ session["booking_in_progress"] = FALSE
    /\ Len(session["conversation_history"]) = 4

\* C8: every chat turn that returns a reply extends the stored history by
\* exactly two entries, the user entry with the message and then the assistant
\* entry with the reply returned, on the four booking outcomes and on the Q&A
\* path; no chat turn modifies or removes an earlier entry.
C8_HistoryAppendOnly ==
    [][turn'.op = "chat" =>
        get_memory(session') =
            IF turn'.replied
            THEN get_memory(session)
                    \o <<[role |-> "user", content |-> turn'.msg],
                         [role |-> "assistant", content |-> turn'.reply]>>
            ELSE get_memory(session)]_vars

\* the second replied turn of a session
C8_Witness ==
    /\ turn.op = "chat" /\ turn.replied
    /\ Len(get_memory(session)) = 4
    /\ get_memory(session)[3].content = turn.msg
    /\ get_memory(session)[4].content = turn.reply

\* C9: the completing turn clears booking_in_progress and keeps the five
\* slots, each holding the value placed in the booking URL; the next booking
\* turn starts from those values and gives each of them to the extractor in
\* the combined input.
C9_SlotsKeptAfterCompletion ==
    [][/\ Completion(turn') =>
            /\ session'["booking_in_progress"] = FALSE
            /\ \A f \in SlotKeys :
                  /\ f \in DOMAIN session'
                  /\ session'[f] # <<>>
                  /\ session'[f] = Strip(turn'.info[f])
            /\ turn'.booking_url =
                  turn'.host_url \o <<"b", "o", "o", "k", "?">>
                      \o urlencode([i \in DOMAIN required_fields |->
                            <<FieldText(required_fields[i]), session'[required_fields[i]]>>])
       /\ (Completion(turn) /\ turn'.op = "chat" /\ turn'.branch = "booking") =>
            \A f \in SlotKeys :
                /\ turn'.existing_info[f] = session[f]
                /\ Contains(turn'.combined_input, KnownStatement(f, session[f]))]_vars

\* a booking turn right after a completed booking
C9_Witness ==
    /\ turn.op = "chat" /\ turn.branch = "booking"
    /\ ~turn.in_progress_before
    /\ \A f \in SlotKeys : turn.existing_info[f] # <<>>
    /\ \A f \in SlotKeys : Contains(turn.combined_input, KnownStatement(f, turn.existing_info[f]))

\* the five slots are stored, none a placeholder, each passing its validator
CompleteAndValid(s) ==
    \A f \in SlotKeys :
        f \in DOMAIN s /\ ~IsPlaceholder(s[f]) /\ PassesValidator(f, s[f])

\* a booking turn on a complete and valid session whose extraction returns the stored values
SameValuesAgain ==
    /\ Extraction(turn')
    /\ CompleteAndValid(session)
    /\ \A f \in SlotKeys : turn'.info[f] = session[f]

\* C10 as stated: from a session whose five slots are complete and valid, a
\* booking turn whose extraction returns the same five values leaves the slots
\* unchanged and produces the booking URL of the turn that completed the
\* booking before it.
C10_SameUrlAsBefore ==
    [][SameValuesAgain =>
        /\ \A f \in SlotKeys : SameKey(f)
        /\ Completion(turn')
        /\ Completion(turn) => turn'.booking_url = turn.booking_url]_vars

\* C10, amended: ... and produces the booking URL of the turn that completed
\* the booking before it when both requests came with the same host URL.
C10_SameUrlOnSameHost ==
    [][SameValuesAgain =>
        /\ \A f \in SlotKeys : SameKey(f)
        /\ Completion(turn')
        /\ (Completion(turn) /\ turn'.host_url = turn.host_url) =>
              turn'.booking_url = turn.booking_url]_vars

\* two completed bookings in a row with the same five values and the same host
C10_Witness ==
    /\ Completion(turn)
    /\ ~turn.in_progress_before
    /\ \A f \in SlotKeys : turn.info[f] = turn.existing_info[f] /\ session[f] = turn.info[f]
    /\ Len(get_memory(session)) = 4
    /\ get_memory(session)[2].content = link_reply(turn.booking_url)

\* C11: logout clears all session state from any reachable state: after it the
\* history is empty, booking_in_progress is unset and the five slots are
\* absent; the next message without a keyword goes to the Q&A fallback, and the
\* next booking turn builds its combined input from the new message alone.
C11_LogoutClears ==
    [][/\ turn'.op = "logout" =>
            /\ get_memory(session') = <<>>
            /\ "conversation_history" \notin DOMAIN session'
            /\ "booking_in_progress" \notin DOMAIN session'
            /\ SlotKeys \cap DOMAIN session' = {}
       /\ (turn.op = "logout" /\ turn'.op = "chat") =>
            /\ ~MentionsKeyword(turn'.msg) =>
                  turn'.branch = "qa" /\ turn'.extractor_calls = 0
            /\ turn'.branch = "booking" =>
                  /\ \A f \in SlotKeys : turn'.existing_info[f] = <<>>
                  /\ turn'.combined_input = <<" ">> \o turn'.msg]_vars

\* a logout that cleared a session holding the history, the flag and the five slots
C11_Witness ==
    /\ turn.op = "logout"
    /\ SlotKeys \cup {"conversation_history", "booking_in_progress"} \subseteq turn.cleared
    /\ session = EmptySession
    /\ nreq < MaxDialogue

(***************************************************************************)
(* A fourth set of inputs, for the placeholder detector: the extractor     *)
(* returns as name each entry of bad_values as written (BookingInfo's      *)
(* min_length=1 excludes the empty one), case and whitespace variants of   *)
(* entries, and near misses.                                               *)
(***************************************************************************)
\* requests in one behaviour of the placeholder runs
MaxPlaceholderRequests == 2

\* 'JOHN DOE', ' Unknown ', '\tUSER\n', 'Your Name  ', ' '
PlaceholderVariants ==
    {<<"J", "O", "H", "N", " ", "D", "O", "E">>,
     <<" ", "U", "n", "k", "n", "o", "w", "n", " ">>,
     <<"\t", "U", "S", "E", "R", "\n">>,
     <<"Y", "o", "u", "r", " ", "N", "a", "m", "e", " ", " ">>,
     <<" ">>}

\* 'Al', 'usern', 'john doex'
NearMisses ==
    {<<"A", "l">>,
     <<"u", "s", "e", "r", "n">>,
     <<"j", "o", "h", "n", " ", "d", "o", "e", "x">>}

PlaceholderNames ==
    {bad_values[i] : i \in {j \in DOMAIN bad_values : bad_values[j] # <<>>}}
        \cup PlaceholderVariants \cup NearMisses

\* ' ABC@Example.com ', "You didn't mention your email"
PlaceholderEmails ==
    {<<" ", "A", "B", "C", "@", "E", "x", "a", "m", "p", "l", "e", ".", "c", "o", "m", " ">>,
     <<"Y", "o", "u", " ", "d", "i", "d", "n", "'", "t", " ", "m", "e", "n", "t", "i", "o", "n", " ", "y", "o", "u", "r", " ", "e", "m", "a", "i", "l">>}

PlaceholderInfos ==
    {[RouteInfo EXCEPT !["name"] = n] : n \in PlaceholderNames}
        \cup {[RouteInfo EXCEPT !["email"] = e] : e \in PlaceholderEmails}

PlaceholderOutcomes == {Extracted(info) : info \in PlaceholderInfos}

NextPlaceholder ==
    \/ ChatBooking(Msgs, PlaceholderOutcomes, {HostLocal}, MaxPlaceholderRequests)
    \/ ChatQA(Msgs, RagOutcomes, MaxPlaceholderRequests)
    \/ Logout(MaxPlaceholderRequests)

SpecPlaceholder == Init /\ [][NextPlaceholder]_vars

\* the value is a case or surrounding-whitespace variant of an entry of
\* bad_values as written
VariantOfBadValue(v) ==
    \E i \in DOMAIN bad_values : Lower(Strip(v)) = Lower(Strip(bad_values[i]))

\* C12: for every string of the Bad-Value Set as written in the code, and
\* every case or surrounding-whitespace variant of it, the detector reports
\* the value as bad (the field is listed as missing and not stored); for every
\* other non-empty string it reports good (the field is stored).
C12_PlaceholderDetection ==
    [][Extraction(turn') =>
        \A f \in SlotKeys :
            IF VariantOfBadValue(turn'.info[f])
            THEN InList(f, turn'.missing) /\ SameKey(f)
            ELSE f \in DOMAIN session' /\ session'[f] = Strip(turn'.info[f])]_vars

\* one line of the query: "{role}: {content}"
QueryLine(m) ==
    (IF m.role = "user" THEN <<"u", "s", "e", "r">> ELSE <<"a", "s", "s", "i", "s", "t", "a", "n", "t">>)
        \o <<":", " ">> \o m.content

\* the most recent ContextWindow turns of a history, all of them when it holds fewer
RecentTurns(h) ==
    LET n == IF Len(h) < ContextWindow THEN Len(h) ELSE ContextWindow
    IN  [i \in 1..n |-> h[Len(h) - n + i]]

\* the lines joined by newlines
Lines(ls) == Join(ls, <<"\n">>)

\* the history the handler reads the context from: every incoming message is
\* appended to it as a user turn before processing
HistoryAtRead(s, msg) == get_memory(s) \o <<[role |-> "user", content |-> msg]>>

\* C13: on every Q&A turn the query passed to the generator renders, in their
\* original order, the most recent 6 turns of the conversation history (all of
\* them when it holds fewer than 6) and no older turn, followed by the new user
\* message as the last line, however long the stored history has grown.
C13_ContextWindowed ==
    [][(turn'.op = "chat" /\ turn'.branch = "qa") =>
        LET recent == RecentTurns(HistoryAtRead(session, turn'.msg))
        IN  /\ turn'.rag_calls = 1
            /\ turn'.full_input =
                  Lines([i \in DOMAIN recent |-> QueryLine(recent[i])]
                            \o <<QueryLine([role |-> "user", content |-> turn'.msg])>>)]_vars

\* a Q&A turn answered on a stored history of six turns: the oldest turn, a
\* booking message, is not in the query, the second oldest is its first line
C13_Witness ==
    /\ turn.op = "chat" /\ turn.branch = "qa" /\ turn.outcome = "answer"
    /\ Len(get_memory(session)) = 8
    /\ get_memory(session)[1].content = MsgBook
    /\ ~Contains(turn.full_input, MsgBook)
    /\ SubSeq(turn.full_input, 1, Len(QueryLine(get_memory(session)[2])))
          = QueryLine(get_memory(session)[2])

\* the sequences of one or more distinct required fields
FieldSeqs ==
    {q \in UNION {[1..n -> SlotKeys] : n \in 1..Cardinality(SlotKeys)} :
        \A i, j \in DOMAIN q : i # j => q[i] # q[j]}

\* the four shapes of a booking reply: the follow-up prompt for some fields,
IsFollowUpPrompt(reply) ==
    \E q \in FieldSeqs : reply = FollowUpHead \o FieldList(q) \o <<".">>

\* the follow-up prompt listing the given fields
IsFollowUpPromptFor(reply, fields) ==
    /\ fields # <<>>
    /\ \A i \in DOMAIN fields : fields[i] \in SlotKeys
    /\ reply = FollowUpHead \o FieldList(fields) \o <<".">>

IsBookingLink(reply, url) ==
    url # <<>> /\ reply = LinkHead \o url \o LinkMid \o url \o LinkTail

IsSchemaReply(reply, fields) ==
    fields # <<>> /\ reply = SchemaHead \o FieldList(fields) \o SchemaTail

IsGenericRecovery(reply) == reply = GenericRecovery

\* C14: every turn handled by the booking branch ends with exactly one reply,
\* of one of four shapes (follow-up prompt listing missing fields, booking
\* link, schema-error reply listing field names, fixed generic recovery
\* reply), also when the extractor fails, and the extractor is invoked at most
\* once in the turn.
C14_OneReplyOfFourShapes ==
    [][(turn'.op = "chat" /\ turn'.branch = "booking") =>
        /\ turn'.replied
        /\ turn'.extractor_calls <= 1
        /\ turn'.rag_calls = 0
        /\ Len(get_memory(session')) = Len(get_memory(session)) + 2
        /\ get_memory(session')[Len(get_memory(session'))]
              = [role |-> "assistant", content |-> turn'.reply]
        /\ \/ turn'.ext_kind = "ok" /\ IsFollowUpPromptFor(turn'.reply, turn'.missing)
           \/ turn'.ext_kind = "ok" /\ IsBookingLink(turn'.reply, turn'.booking_url)
           \/ turn'.ext_kind = "schema" /\ IsSchemaReply(turn'.reply, turn'.errors)
           \/ turn'.ext_kind = "error" /\ IsGenericRecovery(turn'.reply)]_vars

\* the extractor failed on two turns in a row and each got its one recovery reply
C14_Witness ==
    /\ turn.op = "chat" /\ turn.branch = "booking"
    /\ turn.ext_kind = "error" /\ turn.extractor_calls = 1
    /\ Len(get_memory(session)) = 4
    /\ IsSchemaReply(get_memory(session)[2].content, <<"name", "time">>)
    /\ IsGenericRecovery(get_memory(session)[4].content)

\* C15: once booking_in_progress is set it stays set across every later chat
\* turn, whatever the message and whether or not the extractor fails, until a
\* turn whose extraction yields no missing field or a logout; in all those
\* turns the booking branch handles the message and the Q&A generator is
\* never invoked.
C15_CollectingIsSticky ==
    [][FlagSet(session) =>
        /\ turn'.op = "chat" =>
              /\ turn'.branch = "booking"
              /\ turn'.rag_calls = 0
              /\ FlagSet(session') \/ (Extraction(turn') /\ turn'.missing = <<>>)
              /\ (Extraction(turn') /\ turn'.missing = <<>>) => ~FlagSet(session')
        /\ ~FlagSet(session') =>
              \/ turn'.op = "logout"
              \/ Extraction(turn') /\ turn'.missing = <<>>]_vars

\* the flag is still set after three turns in a row: an extractor failure, an
\* extraction with fields missing, and a message without keyword
C15_Witness ==
    /\ turn.op = "chat" /\ turn.branch = "booking"
    /\ ~MentionsKeyword(turn.msg)
    /\ turn.in_progress_before
    /\ FlagSet(session)
    /\ Len(get_memory(session)) = 6
    /\ IsGenericRecovery(get_memory(session)[2].content)
    /\ IsFollowUpPrompt(get_memory(session)[4].content)
    /\ ~MentionsKeyword(get_memory(session)[3].content)

\* the required fields whose value as extracted is a placeholder or fails the
\* validator of the field
FieldsToAskFor(info) ==
    {f \in SlotKeys : IsPlaceholder(info[f]) \/ ~PassesValidator(f, info[f])}

\* C16: on a booking turn whose extraction succeeds, the fields named in the
\* follow-up prompt are exactly the required fields whose value as extracted in
\* this turn is in the Bad-Value Set after normalization, or (date) fails
\* validate_date, or (time) fails validate_time, or (email) fails
\* is_valid_email; each is named once, also when it is a placeholder that would
\* fail its validator too; the stored slots do not influence the set; the
\* prompt is sent exactly when the set is not empty.
C16_PromptNamesExactlyTheBadFields ==
    [][Extraction(turn') =>
        LET named == turn'.missing
        IN  /\ {named[i] : i \in DOMAIN named} = FieldsToAskFor(turn'.info)
            /\ \A i, j \in DOMAIN named : i # j => named[i] # named[j]
            /\ (turn'.outcome = "followup") <=> (FieldsToAskFor(turn'.info) # {})
            /\ turn'.outcome = "followup" =>
                  turn'.reply = FollowUpHead \o FieldList(named) \o <<".">>]_vars

\* the prompt names the time once, for a blank extracted value that is a
\* placeholder and fails validate_time as well, and the e-mail for failing
\* is_valid_email, while the session held a valid time and a valid e-mail
C16_Witness ==
    /\ Extraction(turn) /\ turn.outcome = "followup"
    /\ IsPlaceholder(turn.info["time"]) /\ ~validate_time(turn.info["time"])
    /\ ~IsPlaceholder(turn.info["email"]) /\ ~is_valid_email(turn.info["email"])
    /\ validate_time(turn.existing_info["time"])
    /\ is_valid_email(turn.existing_info["email"])
    /\ validate_date(turn.info["date"])
    /\ turn.reply = FollowUpHead \o FieldList(<<"time", "email">>) \o <<".">>

\* the extraction is fully good: no value is a placeholder and date, time and
\* e-mail pass validation
FullyGood(info) ==
    \A f \in SlotKeys : ~IsPlaceholder(info[f]) /\ PassesValidator(f, info[f])

\* the five query parameters, in order, with the values given
QueryOf(values) ==
    urlencode([i \in DOMAIN required_fields |->
                  <<FieldText(required_fields[i]), values[required_fields[i]]>>])

\* C17: on any booking turn, from any reachable session state, if the
\* extractor returns five values none of which is a placeholder and whose date,
\* time and e-mail pass validation, that same turn clears booking_in_progress
\* and replies with a booking link whose five query parameters are exactly the
\* trimmed extracted values of this turn.
C17_FullyGoodExtractionCompletes ==
    [][(Extraction(turn') /\ FullyGood(turn'.info)) =>
        /\ turn'.outcome = "complete"
        /\ "booking_in_progress" \in DOMAIN session'
        /\ session'["booking_in_progress"] = FALSE
        /\ IsBookingLink(turn'.reply, turn'.booking_url)
        /\ turn'.booking_url =
              turn'.host_url \o <<"b", "o", "o", "k", "?">>
                  \o QueryOf([f \in SlotKeys |-> Strip(turn'.info[f])])]_vars

\* a fully good extraction with a padded service, on a session that had the
\* flag set and other values stored by an earlier turn with fields missing:
\* https://h/book?name=Al&email=a%40b.co&service=Gym&date=2025-03-10&time=14%3A30
C17_Witness ==
    /\ Extraction(turn) /\ FullyGood(turn.info)
    /\ turn.in_progress_before
    /\ turn.existing_info["email"] # <<>> /\ ~is_valid_email(turn.existing_info["email"])
    /\ turn.existing_info["service"] # Strip(turn.info["service"])
    /\ session["booking_in_progress"] = FALSE
    /\ turn.booking_url =
          <<"h", "t", "t", "p", "s", ":", "/", "/", "h", "/", "b", "o", "o", "k", "?", "n", "a", "m", "e", "=", "A", "l", "&", "e", "m", "a", "i", "l", "=", "a", "%", "4", "0", "b", ".", "c", "o", "&", "s", "e", "r", "v", "i", "c", "e", "=", "G", "y", "m", "&", "d", "a", "t", "e", "=", "2", "0", "2", "5", "-", "0", "3", "-", "1", "0", "&", "t", "i", "m", "e", "=", "1", "4", "%", "3", "A", "3", "0">>

\* C18: in every reachable state no stored slot, trimmed and lower-cased, is a
\* member of the Bad-Value Set (none is the empty string once written); a slot
\* that has been written is never removed or emptied by a chat turn; only
\* logout removes it.
C18_SlotsMonotoneNeverPlaceholder ==
    [][/\ \A f \in SlotKeys \cap DOMAIN session' :
              /\ ~InList(Lower(Strip(session'[f])), bad_values)
              /\ session'[f] # <<>>
       /\ turn'.op = "chat" =>
              \A f \in SlotKeys \cap DOMAIN session :
                  f \in DOMAIN session' /\ session'[f] # <<>>
       /\ (\E f \in SlotKeys \cap DOMAIN session : f \notin DOMAIN session') =>
              turn'.op = "logout"]_vars

\* a name and a time written by one turn are still there after a turn whose
\* extraction returned placeholders for both
C18_Witness ==
    /\ Extraction(turn)
    /\ IsPlaceholder(turn.info["name"]) /\ IsPlaceholder(turn.info["time"])
    /\ turn.existing_info["name"] # <<>> /\ turn.existing_info["time"] # <<>>
    /\ session["name"] = turn.existing_info["name"]
    /\ session["time"] = turn.existing_info["time"]

\* the number of places where sub occurs in s
Occurrences(s, sub) ==
    Cardinality({i \in 0..(Len(s) - Len(sub)) : SubSeq(s, i + 1, i + Len(sub)) = sub})

\* C19: on every Q&A turn the new user message occurs exactly once in the
\* query passed to the generator, as its final line, and the windowed context
\* before it consists of 6 history turns that precede the new message whenever
\* at least 6 such turns exist (of all of them otherwise).
C19_MessageOnceAfterSixEarlierTurns ==
    [][(turn'.op = "chat" /\ turn'.branch = "qa") =>
        LET earlier == RecentTurns(get_memory(session))
            context == Lines([i \in DOMAIN earlier |-> QueryLine(earlier[i])])
            last_line == QueryLine([role |-> "user", content |-> turn'.msg])
        IN  /\ turn'.full_input = context \o <<"\n">> \o last_line
            /\ Occurrences(turn'.full_input, last_line) = 1 + Occurrences(context, last_line)]_vars
====
